---- MODULE Spec2Model ----
\* Model of betfairlightweight/endpoints/betting.py: the operations of class
\* Betting.  Every operation snapshots its locals, cleans them into the wire
\* parameter mapping, hands "SportsAPING/v1.0/<remoteMethod>", the mapping and
\* the session to the request executor, and passes the parsed JSON to the
\* response processor.  Python values are carried as their repr() strings.
EXTENDS Integers, Sequences, FiniteSets, TLC

\* ---------------------------------------------------------------- bounds
\* At most this many parameters of a call depart from the plain call.
MaxSupplied == 1
\* Longest JSON array the executor returns.
MaxArr == 2
\* Largest elapsed time the executor reports.
MaxElapsed == 2

\* ---------------------------------------------------------------- values
\* Python None.
None == "None"
\* Marks an argument the caller did not pass (the declared default applies).
Omitted == "<omitted>"
\* Marks a parameter declared without a default.
Required == "<required>"
\* The bound instance (locals()["self"]).
Self == "<Betting>"
\* A requests.Session object supplied by the caller.
SessionObj == "<Session>"

\* filters.market_filter() called without arguments: the empty mapping.
market_filter == "{}"
\* filters.time_range() called without arguments: both ends unset.
time_range == "{'from': None, 'to': None}"

\* A falsy and a truthy Python value of each annotated type.
PyValue(type, truthy) ==
    CASE type = "bool"  -> IF truthy THEN "True" ELSE "False"
      [] type = "int"   -> IF truthy THEN "7" ELSE "0"
      [] type = "float" -> IF truthy THEN "1.5" ELSE "0.0"
      [] type = "str"   -> IF truthy THEN "'x'" ELSE "''"
      [] type = "list"  -> IF truthy THEN "['a']" ELSE "[]"
      [] type = "dict"  -> IF truthy THEN "{'k': 1}" ELSE "{}"
      [] type = "Session" -> SessionObj

\* One declared parameter: name, annotated type, declared default.
Param(n, t, d) == [name |-> n, type |-> t, default |-> d]

\* ---------------------------------------------------------------- vocabularies
\* One member of an enumeration: its declared name and its (wire) value.
Member(n, v) == [name |-> n, value |-> v]

\* MarketProjection with a misspelt value.
MarketProjectionMisspelt ==
    << Member("COMPETITION", "COMPETITIONS"),
       Member("EVENT", "EVENT"),
       Member("EVENT_TYPE", "EVENT_TYPE"),
       Member("MARKET_START_TIME", "MARKET_START_TIME"),
       Member("MARKET_DESCRIPTION", "MARKET_DESCRIPTION"),
       Member("RUNNER_DESCRIPTION", "RUNNER_DESCRIPTION"),
       Member("RUNNER_METADATA", "RUNNER_METADATA") >>

\* class MarketProjection(str, Enum)
MarketProjection ==
    << Member("COMPETITION", "COMPETITION"),
       Member("EVENT", "EVENT"),
       Member("EVENT_TYPE", "EVENT_TYPE"),
       Member("MARKET_START_TIME", "MARKET_START_TIME"),
       Member("MARKET_DESCRIPTION", "MARKET_DESCRIPTION"),
       Member("RUNNER_DESCRIPTION", "RUNNER_DESCRIPTION"),
       Member("RUNNER_METADATA", "RUNNER_METADATA") >>

\* class PriceData(str, Enum)
PriceData ==
    << Member("SP_AVAILABLE", "SP_AVAILABLE"),
       Member("SP_TRADED", "SP_TRADED"),
       Member("EX_BEST_OFFERS", "EX_BEST_OFFERS"),
       Member("EX_ALL_OFFERS", "EX_ALL_OFFERS"),
       Member("EX_TRADED", "EX_TRADED") >>

\* class MatchProjection(str, Enum)
MatchProjection ==
    << Member("NO_ROLLUP", "NO_ROLLUP"),
       Member("ROLLED_UP_BY_PRICE", "ROLLED_UP_BY_PRICE"),
       Member("ROLLED_UP_BY_AVG_PRICE", "ROLLED_UP_BY_AVG_PRICE") >>

\* class OrderProjection(str, Enum)
OrderProjection ==
    << Member("ALL", "ALL"),
       Member("EXECUTABLE", "EXECUTABLE"),
       Member("EXECUTION_COMPLETE", "EXECUTION_COMPLETE") >>

\* class MarketStatus(str, Enum)
MarketStatus ==
    << Member("INACTIVE", "INACTIVE"),
       Member("OPEN", "OPEN"),
       Member("SUSPENDED", "SUSPENDED"),
       Member("CLOSED", "CLOSED") >>

\* class RunnerStatus(str, Enum)
RunnerStatus ==
    << Member("ACTIVE", "ACTIVE"),
       Member("WINNER", "WINNER"),
       Member("LOSER", "LOSER"),
       Member("PLACED", "PLACED"),
       Member("REMOVED_VACANT", "REMOVED_VACANT"),
       Member("REMOVED", "REMOVED"),
       Member("HIDDEN", "HIDDEN") >>

\* class TimeGranularity(str, Enum)
TimeGranularity ==
    << Member("DAYS", "DAYS"),
       Member("HOURS", "HOURS"),
       Member("MINUTES", "MINUTES") >>

\* class Side(str, Enum)
Side ==
    << Member("BACK", "BACK"),
       Member("LAY", "LAY") >>

\* class OrderStatus(str, Enum)
OrderStatus ==
    << Member("PENDING", "PENDING"),
       Member("EXECUTION_COMPLETE", "EXECUTION_COMPLETE"),
       Member("EXECUTABLE", "EXECUTABLE"),
       Member("EXPIRED", "EXPIRED") >>

\* class OrderBy(str, Enum)
OrderBy ==
    << Member("BY_BET", "BY_BET"),
       Member("BY_MARKET", "BY_MARKET"),
       Member("BY_MATCH_TIME", "BY_MATCH_TIME"),
       Member("BY_PLACE_TIME", "BY_PLACE_TIME"),
       Member("BY_SETTLED_TIME", "BY_SETTLED_TIME"),
       Member("BY_VOID_TIME", "BY_VOID_TIME") >>

\* SortDir with one value written twice.
SortDirRepeated ==
    << Member("EARLIEST_TO_LATEST", "EARLIEST_TO_LATEST"),
       Member("LATEST_TO_EARLIEST", "EARLIEST_TO_LATEST") >>

\* class SortDir(str, Enum)
SortDir ==
    << Member("EARLIEST_TO_LATEST", "EARLIEST_TO_LATEST"),
       Member("LATEST_TO_EARLIEST", "LATEST_TO_EARLIEST") >>

\* class OrderType(str, Enum)
OrderType ==
    << Member("LIMIT", "LIMIT"),
       Member("LIMIT_ON_CLOSE", "LIMIT_ON_CLOSE"),
       Member("MARKET_ON_CLOSE", "MARKET_ON_CLOSE") >>

\* class MarketSort(str, Enum)
MarketSort ==
    << Member("MINIMUM_TRADED", "MINIMUM_TRADED"),
       Member("MAXIMUM_TRADED", "MAXIMUM_TRADED"),
       Member("MINIMUM_AVAILABLE", "MINIMUM_AVAILABLE"),
       Member("MAXIMUM_AVAILABLE", "MAXIMUM_AVAILABLE"),
       Member("FIRST_TO_START", "FIRST_TO_START"),
       Member("LAST_TO_START", "LAST_TO_START") >>

\* class MarketBettingType(str, Enum)
MarketBettingType ==
    << Member("ODDS", "ODDS"),
       Member("LINE", "LINE"),
       Member("RANGE", "RANGE"),
       Member("ASIAN_HANDICAP_DOUBLE_LINE", "ASIAN_HANDICAP_DOUBLE_LINE"),
       Member("ASIAN_HANDICAP_SINGLE_LINE", "ASIAN_HANDICAP_SINGLE_LINE"),
       Member("FIXED_ODDS", "FIXED_ODDS") >>

\* class ExecutionReportStatus(str, Enum)
ExecutionReportStatus ==
    << Member("SUCCESS", "SUCCESS"),
       Member("FAILURE", "FAILURE"),
       Member("PROCESSED_WITH_ERRORS", "PROCESSED_WITH_ERRORS"),
       Member("TIMEOUT", "TIMEOUT") >>

\* class ExecutionReportErrorCode(str, Enum)
ExecutionReportErrorCode ==
    << Member("ERROR_IN_MATCHER", "ERROR_IN_MATCHER"),
       Member("PROCESSED_WITH_ERRORS", "PROCESSED_WITH_ERRORS"),
       Member("BET_ACTION_ERROR", "BET_ACTION_ERROR"),
       Member("INVALID_ACCOUNT_STATE", "INVALID_ACCOUNT_STATE"),
       Member("INVALID_WALLET_STATUS", "INVALID_WALLET_STATUS"),
       Member("INSUFFICIENT_FUNDS", "INSUFFICIENT_FUNDS"),
       Member("LOSS_LIMIT_EXCEEDED", "LOSS_LIMIT_EXCEEDED"),
       Member("MARKET_SUSPENDED", "MARKET_SUSPENDED"),
       Member("MARKET_NOT_OPEN_FOR_BETTING", "MARKET_NOT_OPEN_FOR_BETTING"),
       Member("DUPLICATE_TRANSACTION", "DUPLICATE_TRANSACTION"),
       Member("INVALID_ORDER", "INVALID_ORDER"),
       Member("INVALID_MARKET_ID", "INVALID_MARKET_ID"),
       Member("PERMISSION_DENIED", "PERMISSION_DENIED"),
       Member("DUPLICATE_BETIDS", "DUPLICATE_BETIDS"),
       Member("NO_ACTION_REQUIRED", "NO_ACTION_REQUIRED"),
       Member("SERVICE_UNAVAILABLE", "SERVICE_UNAVAILABLE"),
       Member("REJECTED_BY_REGULATOR", "REJECTED_BY_REGULATOR"),
       Member("NO_CHASING", "NO_CHASING"),
       Member("REGULATOR_IS_NOT_AVAILABLE", "REGULATOR_IS_NOT_AVAILABLE"),
       Member("TOO_MANY_INSTRUCTIONS", "TOO_MANY_INSTRUCTIONS"),
       Member("INVALID_MARKET_VERSION", "INVALID_MARKET_VERSION"),
       Member("INVALID_PROFIT_RATIO", "INVALID_PROFIT_RATIO") >>

\* class PersistenceType(str, Enum)
PersistenceType ==
    << Member("LAPSE", "LAPSE"),
       Member("PERSIST", "PERSIST"),
       Member("MARKET_ON_CLOSE", "MARKET_ON_CLOSE") >>

\* class InstructionReportStatus(str, Enum)
InstructionReportStatus ==
    << Member("SUCCESS", "SUCCESS"),
       Member("FAILURE", "FAILURE"),
       Member("TIMEOUT", "TIMEOUT") >>

\* class InstructionReportErrorCode(str, Enum)
InstructionReportErrorCode ==
    << Member("INVALID_BET_SIZE", "INVALID_BET_SIZE"),
       Member("INVALID_RUNNER", "INVALID_RUNNER"),
       Member("BET_TAKEN_OR_LAPSED", "BET_TAKEN_OR_LAPSED"),
       Member("BET_IN_PROGRESS", "BET_IN_PROGRESS"),
       Member("RUNNER_REMOVED", "RUNNER_REMOVED"),
       Member("MARKET_NOT_OPEN_FOR_BETTING", "MARKET_NOT_OPEN_FOR_BETTING"),
       Member("LOSS_LIMIT_EXCEEDED", "LOSS_LIMIT_EXCEEDED"),
       Member("MARKET_NOT_OPEN_FOR_BSP_BETTING", "MARKET_NOT_OPEN_FOR_BSP_BETTING"),
       Member("INVALID_PRICE_EDIT", "INVALID_PRICE_EDIT"),
       Member("INVALID_ODDS", "INVALID_ODDS"),
       Member("INSUFFICIENT_FUNDS", "INSUFFICIENT_FUNDS"),
       Member("INVALID_PERSISTENCE_TYPE", "INVALID_PERSISTENCE_TYPE"),
       Member("ERROR_IN_MATCHER", "ERROR_IN_MATCHER"),
       Member("INVALID_BACK_LAY_COMBINATION", "INVALID_BACK_LAY_COMBINATION"),
       Member("ERROR_IN_ORDER", "ERROR_IN_ORDER"),
       Member("INVALID_BID_TYPE", "INVALID_BID_TYPE"),
       Member("INVALID_BET_ID", "INVALID_BET_ID"),
       Member("CANCELLED_NOT_PLACED", "CANCELLED_NOT_PLACED"),
       Member("RELATED_ACTION_FAILED", "RELATED_ACTION_FAILED"),
       Member("NO_ACTION_REQUIRED", "NO_ACTION_REQUIRED"),
       Member("TIME_IN_FORCE_CONFLICT", "TIME_IN_FORCE_CONFLICT"),
       Member("UNEXPECTED_PERSISTENCE_TYPE", "UNEXPECTED_PERSISTENCE_TYPE"),
       Member("INVALID_ORDER_TYPE", "INVALID_ORDER_TYPE"),
       Member("UNEXPECTED_MIN_FILL_SIZE", "UNEXPECTED_MIN_FILL_SIZE"),
       Member("INVALID_CUSTOMER_ORDER_REF", "INVALID_CUSTOMER_ORDER_REF"),
       Member("INVALID_MIN_FILL_SIZE", "INVALID_MIN_FILL_SIZE"),
       Member("BET_LAPSED_PRICE_IMPROVEMENT_TOO_LARGE", "BET_LAPSED_PRICE_IMPROVEMENT_TOO_LARGE") >>

\* class GroupBy(str, Enum)
GroupBy ==
    << Member("EVENT_TYPE", "EVENT_TYPE"),
       Member("EVENT", "EVENT"),
       Member("MARKET", "MARKET"),
       Member("SIDE", "SIDE"),
       Member("BET", "BET") >>

\* class BetStatus(str, Enum)
BetStatus ==
    << Member("SETTLED", "SETTLED"),
       Member("VOIDED", "VOIDED"),
       Member("LAPSED", "LAPSED"),
       Member("CANCELLED", "CANCELLED") >>

\* class TimeInForce(str, Enum)
TimeInForce ==
    << Member("FILL_OR_KILL", "FILL_OR_KILL") >>

\* class BetTargetType(str, Enum)
BetTargetType ==
    << Member("BACKERS_PROFIT", "BACKERS_PROFIT"),
       Member("PAYOUT", "PAYOUT") >>

\* class PriceLadderType(str, Enum)
PriceLadderType ==
    << Member("CLASSIC", "CLASSIC"),
       Member("FINEST", "FINEST"),
       Member("LINE_RANGE", "LINE_RANGE") >>

\* The vocabularies of the module, by class name.
Vocabulary ==
       "MarketProjection" :> MarketProjection
    @@ "PriceData" :> PriceData
    @@ "MatchProjection" :> MatchProjection
    @@ "OrderProjection" :> OrderProjection
    @@ "MarketStatus" :> MarketStatus
    @@ "RunnerStatus" :> RunnerStatus
    @@ "TimeGranularity" :> TimeGranularity
    @@ "Side" :> Side
    @@ "OrderStatus" :> OrderStatus
    @@ "OrderBy" :> OrderBy
    @@ "SortDir" :> SortDir
    @@ "OrderType" :> OrderType
    @@ "MarketSort" :> MarketSort
    @@ "MarketBettingType" :> MarketBettingType
    @@ "ExecutionReportStatus" :> ExecutionReportStatus
    @@ "ExecutionReportErrorCode" :> ExecutionReportErrorCode
    @@ "PersistenceType" :> PersistenceType
    @@ "InstructionReportStatus" :> InstructionReportStatus
    @@ "InstructionReportErrorCode" :> InstructionReportErrorCode
    @@ "GroupBy" :> GroupBy
    @@ "BetStatus" :> BetStatus
    @@ "TimeInForce" :> TimeInForce
    @@ "BetTargetType" :> BetTargetType
    @@ "PriceLadderType" :> PriceLadderType

\* Vocab.NAME.value: the value of the member declared under that name.
value_of(vocab, name) ==
    LET members == Vocabulary[vocab]
    IN  members[CHOOSE k \in DOMAIN members : members[k].name = name].value

\* Vocab(value): the first declared member with that value (a later member
\* with the same value is an alias of it).
member_by_value(vocab, value) ==
    LET members == Vocabulary[vocab]
        hits == { k \in DOMAIN members : members[k].value = value }
    IN  members[CHOOSE k \in hits : \A j \in hits : k <= j].name

\* ---------------------------------------------------------------- state
Slots == {1, 2}

VARIABLES
    active,   \* the callers (threads) that invoke operations
    inv,      \* inv[i]: the invocation caller i is in, a record (see Idle)
    workload, \* the calls and response bodies the environment offers; fixed at Init
    defaults, \* the content of every default-argument object built when the class is defined
    lookup,   \* the enumeration member a client of the vocabularies is looking at
    seen      \* an earlier, finished invocation an observer of the executor remembers

\* What no step of an operation changes.
env == << active, workload, defaults, lookup, seen >>

vars == << inv, env >>

\* ---------------------------------------------------------------- class Betting
URI == "SportsAPING/v1.0/"

\* def list_event_types(self, ...): the parameters after self, in declaration order.
sig_list_event_types ==
    << Param("filter", "dict", market_filter),
       Param("locale", "str", None),
       Param("session", "Session", None),
       Param("lightweight", "bool", None) >>

\* def list_competitions(self, ...): the parameters after self, in declaration order.
sig_list_competitions ==
    << Param("filter", "dict", market_filter),
       Param("locale", "str", None),
       Param("session", "Session", None),
       Param("lightweight", "bool", None) >>

\* def list_time_ranges(self, ...): the parameters after self, in declaration order.
sig_list_time_ranges ==
    << Param("filter", "dict", market_filter),
       Param("granularity", "str", "'DAYS'"),
       Param("session", "Session", None),
       Param("lightweight", "bool", None) >>

\* def list_events(self, ...): the parameters after self, in declaration order.
sig_list_events ==
    << Param("filter", "dict", market_filter),
       Param("locale", "str", None),
       Param("session", "Session", None),
       Param("lightweight", "bool", None) >>

\* def list_market_types(self, ...): the parameters after self, in declaration order.
sig_list_market_types ==
    << Param("filter", "dict", market_filter),
       Param("locale", "str", None),
       Param("session", "Session", None),
       Param("lightweight", "bool", None) >>

\* def list_countries(self, ...): the parameters after self, in declaration order.
sig_list_countries ==
    << Param("filter", "dict", market_filter),
       Param("locale", "str", None),
       Param("session", "Session", None),
       Param("lightweight", "bool", None) >>

\* def list_venues(self, ...): the parameters after self, in declaration order.
sig_list_venues ==
    << Param("filter", "dict", market_filter),
       Param("locale", "str", None),
       Param("session", "Session", None),
       Param("lightweight", "bool", None) >>

\* def list_market_catalogue(self, ...): the parameters after self, in declaration order.
sig_list_market_catalogue ==
    << Param("filter", "dict", market_filter),
       Param("market_projection", "list", None),
       Param("sort", "str", None),
       Param("max_results", "int", "1"),
       Param("locale", "str", None),
       Param("session", "Session", None),
       Param("lightweight", "bool", None) >>

\* def list_market_book(self, ...): the parameters after self, in declaration order.
sig_list_market_book ==
    << Param("market_ids", "list", Required),
       Param("price_projection", "dict", None),
       Param("order_projection", "str", None),
       Param("match_projection", "str", None),
       Param("include_overall_position", "bool", None),
       Param("partition_matched_by_strategy_ref", "bool", None),
       Param("customer_strategy_refs", "list", None),
       Param("currency_code", "str", None),
       Param("matched_since", "str", None),
       Param("bet_ids", "list", None),
       Param("locale", "str", None),
       Param("session", "Session", None),
       Param("lightweight", "bool", None) >>

\* def list_runner_book(self, ...): the parameters after self, in declaration order.
sig_list_runner_book ==
    << Param("market_id", "str", Required),
       Param("selection_id", "int", Required),
       Param("handicap", "float", None),
       Param("price_projection", "dict", None),
       Param("order_projection", "str", None),
       Param("match_projection", "str", None),
       Param("include_overall_position", "bool", None),
       Param("partition_matched_by_strategy_ref", "bool", None),
       Param("customer_strategy_refs", "list", None),
       Param("currency_code", "str", None),
       Param("matched_since", "str", None),
       Param("bet_ids", "list", None),
       Param("locale", "str", None),
       Param("session", "Session", None),
       Param("lightweight", "bool", None) >>

\* def list_current_orders(self, ...): the parameters after self, in declaration order.
sig_list_current_orders ==
    << Param("bet_ids", "list", None),
       Param("market_ids", "list", None),
       Param("order_projection", "str", None),
       Param("customer_order_refs", "list", None),
       Param("customer_strategy_refs", "list", None),
       Param("date_range", "dict", time_range),
       Param("order_by", "str", None),
       Param("sort_dir", "str", None),
       Param("from_record", "int", None),
       Param("record_count", "int", None),
       Param("include_item_description", "bool", None),
       Param("session", "Session", None),
       Param("lightweight", "bool", None) >>

\* def list_cleared_orders(self, ...): the parameters after self, in declaration order.
sig_list_cleared_orders ==
    << Param("bet_status", "str", "'SETTLED'"),
       Param("event_type_ids", "list", None),
       Param("event_ids", "list", None),
       Param("market_ids", "list", None),
       Param("runner_ids", "list", None),
       Param("bet_ids", "list", None),
       Param("customer_order_refs", "list", None),
       Param("customer_strategy_refs", "list", None),
       Param("side", "str", None),
       Param("settled_date_range", "dict", time_range),
       Param("group_by", "str", None),
       Param("include_item_description", "bool", None),
       Param("locale", "str", None),
       Param("from_record", "int", None),
       Param("record_count", "int", None),
       Param("session", "Session", None),
       Param("lightweight", "bool", None) >>

\* def list_market_profit_and_loss(self, ...): the parameters after self, in declaration order.
sig_list_market_profit_and_loss ==
    << Param("market_ids", "list", Required),
       Param("include_settled_bets", "bool", None),
       Param("include_bsp_bets", "bool", None),
       Param("net_of_commission", "bool", None),
       Param("session", "Session", None),
       Param("lightweight", "bool", None) >>

\* def place_orders(self, ...): the parameters after self, in declaration order.
sig_place_orders ==
    << Param("market_id", "str", Required),
       Param("instructions", "list", Required),
       Param("customer_ref", "str", None),
       Param("market_version", "dict", None),
       Param("customer_strategy_ref", "str", None),
       Param("async_", "bool", None),
       Param("session", "Session", None),
       Param("lightweight", "bool", None) >>

\* def cancel_orders(self, ...): the parameters after self, in declaration order.
sig_cancel_orders ==
    << Param("market_id", "str", None),
       Param("instructions", "list", None),
       Param("customer_ref", "str", None),
       Param("session", "Session", None),
       Param("lightweight", "bool", None) >>

\* def update_orders(self, ...): the parameters after self, in declaration order.
sig_update_orders ==
    << Param("market_id", "str", None),
       Param("instructions", "list", None),
       Param("customer_ref", "str", None),
       Param("session", "Session", None),
       Param("lightweight", "bool", None) >>

\* def replace_orders(self, ...): the parameters after self, in declaration order.
sig_replace_orders ==
    << Param("market_id", "str", Required),
       Param("instructions", "list", Required),
       Param("customer_ref", "str", None),
       Param("market_version", "dict", None),
       Param("async_", "bool", None),
       Param("session", "Session", None),
       Param("lightweight", "bool", None) >>

\* The signature of each operation of class Betting.
Signature(op) ==
    CASE op = "list_event_types" -> sig_list_event_types
      [] op = "list_competitions" -> sig_list_competitions
      [] op = "list_time_ranges" -> sig_list_time_ranges
      [] op = "list_events" -> sig_list_events
      [] op = "list_market_types" -> sig_list_market_types
      [] op = "list_countries" -> sig_list_countries
      [] op = "list_venues" -> sig_list_venues
      [] op = "list_market_catalogue" -> sig_list_market_catalogue
      [] op = "list_market_book" -> sig_list_market_book
      [] op = "list_runner_book" -> sig_list_runner_book
      [] op = "list_current_orders" -> sig_list_current_orders
      [] op = "list_cleared_orders" -> sig_list_cleared_orders
      [] op = "list_market_profit_and_loss" -> sig_list_market_profit_and_loss
      [] op = "place_orders" -> sig_place_orders
      [] op = "cancel_orders" -> sig_cancel_orders
      [] op = "update_orders" -> sig_update_orders
      [] op = "replace_orders" -> sig_replace_orders

\* The class without its four order operations.
OperationsWithoutOrders ==
    { "list_event_types", "list_competitions", "list_time_ranges", "list_events",
      "list_market_types", "list_countries", "list_venues", "list_market_catalogue",
      "list_market_book", "list_runner_book", "list_current_orders",
      "list_cleared_orders", "list_market_profit_and_loss" }

Operations ==
    { "list_event_types", "list_competitions", "list_time_ranges", "list_events",
      "list_market_types", "list_countries", "list_venues", "list_market_catalogue",
      "list_market_book", "list_runner_book", "list_current_orders",
      "list_cleared_orders", "list_market_profit_and_loss", "place_orders",
      "cancel_orders", "update_orders", "replace_orders" }

Range(s) == { s[k] : k \in DOMAIN s }

\* Every operation's parameters by name.
ParamTable ==
    [ op \in Operations |->
        [ n \in { p.name : p \in Range(Signature(op)) } |->
            CHOOSE p \in Range(Signature(op)) : p.name = n ] ]

ParamNames(op) == DOMAIN ParamTable[op]
ParamOf(op, n) == ParamTable[op][n]

\* The parameters a caller may leave out or pass, session and lightweight apart.
OptionalNames(op) ==
    { p.name : p \in { q \in Range(Signature(op)) :
                         q.default # Required /\ q.name \notin {"session", "lightweight"} } }
RequiredNames(op) == { p.name : p \in { q \in Range(Signature(op)) : q.default = Required } }

\* The calls a caller can make.  A plain call passes every required parameter
\* with a truthy value and nothing else; at most MaxSupplied parameters depart
\* from it, each passed as None, a falsy or a truthy value.  The session and
\* the lightweight selector are passed or not, independently.
BoundedArguments(op) ==
    UNION { { [ n \in ParamNames(op) |->
                  IF n = "session" THEN sess
                  ELSE IF n = "lightweight" THEN lw
                  ELSE IF n \in S
                       THEN (IF v[n] = "none" THEN None
                             ELSE PyValue(ParamOf(op, n).type, v[n] = "truthy"))
                  ELSE IF n \in RequiredNames(op)
                       THEN PyValue(ParamOf(op, n).type, TRUE)
                  ELSE Omitted ]
              : v \in [ S -> {"none", "falsy", "truthy"} ],
                sess \in {Omitted, SessionObj},
                lw \in {Omitted, "False", "True"} }
            : S \in { T \in SUBSET (OptionalNames(op) \cup RequiredNames(op)) :
                        Cardinality(T) <= MaxSupplied } }

\* The plain calls alone: required parameters truthy, nothing else passed but,
\* possibly, the lightweight selector.
PlainArguments(op) ==
    { [ n \in ParamNames(op) |->
          IF n = "lightweight" THEN lw
          ELSE IF n \in RequiredNames(op) THEN PyValue(ParamOf(op, n).type, TRUE)
          ELSE Omitted ]
      : lw \in {Omitted, "False", "True"} }

\* The calls offered under the current workload.
Arguments(op) ==
    IF workload = "calls" THEN BoundedArguments(op)
    ELSE IF workload = "concurrent"
         THEN { a \in PlainArguments(op) : a["lightweight"] # "False" }
    ELSE IF workload = "mutating"
         THEN { a \in PlainArguments(op) : a["lightweight"] = Omitted }
    ELSE PlainArguments(op)

\* A parameter default that is a mutable object (a dict built by a filters.*
\* call in the def statement): one object per parameter, shared by all calls.
DefaultObjects ==
    { o \in UNION { { << op, n >> : n \in ParamNames(op) } : op \in Operations } :
        /\ ParamOf(o[1], o[2]).type = "dict"
        /\ ParamOf(o[1], o[2]).default \notin {None, Required} }

\* The default objects as the def statements built them.
DefaultsAtDefinition == [ o \in DefaultObjects |-> ParamOf(o[1], o[2]).default ]

\* Defaults without the filters.* objects: such a parameter defaults to None.
DefaultValueNoObjects(op, n) ==
    IF << op, n >> \in DOMAIN defaults THEN None
    ELSE ParamOf(op, n).default

\* The value an omitted argument is bound to.
DefaultValue(op, n) ==
    IF << op, n >> \in DOMAIN defaults THEN defaults[<< op, n >>]
    ELSE ParamOf(op, n).default

\* locals() of a method that replaces an argument passed as None by the
\* declared default (if x is None: x = default).
locals_none_is_default(op, a) ==
    [ n \in ParamNames(op) \cup {"self"} |->
        IF n = "self" THEN Self
        ELSE IF a[n] \in {Omitted, None} THEN DefaultValue(op, n)
        ELSE a[n] ]

\* locals() that loses the declared defaults: an omitted argument is unset.
locals_no_defaults(op, a) ==
    [ n \in ParamNames(op) \cup {"self"} |->
        IF n = "self" THEN Self
        ELSE IF a[n] = Omitted THEN None
        ELSE a[n] ]

\* locals() at the first statement of a method: self and every parameter,
\* bound to the caller's argument or else to the declared default.
locals(op, a) ==
    [ n \in ParamNames(op) \cup {"self"} |->
        IF n = "self" THEN Self
        ELSE IF a[n] = Omitted THEN DefaultValue(op, n)
        ELSE a[n] ]

\* ---------------------------------------------------------------- utils
UpperOf ==
    [ c \in { "a","b","c","d","e","f","g","h","i","j","k","l","m",
              "n","o","p","q","r","s","t","u","v","w","x","y","z" } |->
        CASE c = "a" -> "A" [] c = "b" -> "B" [] c = "c" -> "C" [] c = "d" -> "D"
          [] c = "e" -> "E" [] c = "f" -> "F" [] c = "g" -> "G" [] c = "h" -> "H"
          [] c = "i" -> "I" [] c = "j" -> "J" [] c = "k" -> "K" [] c = "l" -> "L"
          [] c = "m" -> "M" [] c = "n" -> "N" [] c = "o" -> "O" [] c = "p" -> "P"
          [] c = "q" -> "Q" [] c = "r" -> "R" [] c = "s" -> "S" [] c = "t" -> "T"
          [] c = "u" -> "U" [] c = "v" -> "V" [] c = "w" -> "W" [] c = "x" -> "X"
          [] c = "y" -> "Y" [] c = "z" -> "Z" ]

upper(c) == IF c \in DOMAIN UpperOf THEN UpperOf[c] ELSE c
lower(c) == IF \E l \in DOMAIN UpperOf : UpperOf[l] = c
            THEN CHOOSE l \in DOMAIN UpperOf : UpperOf[l] = c
            ELSE c

\* str.split(sep): the components of s between occurrences of sep, from index i on.
RECURSIVE split(_, _, _, _)
split(s, sep, i, cur) ==
    IF i > Len(s) THEN << cur >>
    ELSE IF SubSeq(s, i, i) = sep THEN << cur >> \o split(s, sep, i + 1, "")
    ELSE split(s, sep, i + 1, cur \o SubSeq(s, i, i))

RECURSIVE lowerAll(_, _)
lowerAll(s, i) == IF i > Len(s) THEN "" ELSE lower(SubSeq(s, i, i)) \o lowerAll(s, i + 1)

\* str.title() of one underscore-free component: first letter upper, rest lower.
title(w) == IF Len(w) = 0 THEN "" ELSE upper(SubSeq(w, 1, 1)) \o lowerAll(w, 2)

RECURSIVE join(_, _)
join(ws, k) == IF k > Len(ws) THEN "" ELSE title(ws[k]) \o join(ws, k + 1)

\* utils.to_camel_case: first component as is, the others title-cased.
to_camel_case(snake_str) ==
    LET components == split(snake_str, "_", 1, "")
    IN  components[1] \o join(components, 2)

\* to_camel_case of every parameter name of the class, computed once.
CamelCase == [ n \in UNION { ParamNames(op) : op \in Operations } |-> to_camel_case(n) ]

\* utils.clean_locals: drops self, session, lightweight and every None entry,
\* and renames the remaining keys to camel case.
clean_locals(data) ==
    LET keep == { k \in DOMAIN data :
                    data[k] # None /\ k \notin {"self", "session", "params", "lightweight"} }
    IN  [ f \in { CamelCase[k] : k \in keep } |->
            data[CHOOSE k \in keep : CamelCase[k] = f] ]

\* The two format arguments in the wrong order.
FormatSwapped(a, b) == b \o a

\* "%s%s" % (a, b)
Format(a, b) == a \o b

\* ---------------------------------------------------------------- invocations

NoSeen == [op |-> "", args |-> << >>, method |-> "", params |-> << >>, outcome |-> ""]
NoLookup == [pc |-> "none", vocab |-> "", name |-> "", value |-> "", found |-> ""]
NoJson == [shape |-> "none", items |-> << >>]
NoResult == [kind |-> "none"]
NoSent == [method |-> "", params |-> << >>, session |-> None]
NoProcessed == [response_json |-> NoJson, resource |-> "", elapsed_time |-> 0, lightweight |-> None]

\* No invocation in progress: nothing of an earlier call is kept.
Idle ==
    [ pc |-> "idle", op |-> "", args |-> << >>, resource |-> "", sent |-> NoSent, requests |-> 0,
      response_json |-> NoJson, elapsed_time |-> 0,
      processed |-> NoProcessed, processes |-> 0,
      exec_failure |-> "", proc_failure |-> "", result |-> NoResult, failure |-> "" ]

\* The parsed JSON bodies the executor can return: one object, or an array of
\* 0..MaxArr objects (objects are told apart by a number).
JsonBodies ==
    { [shape |-> "object", items |-> << 1 >>] } \cup
    { [shape |-> "array", items |-> [k \in 1..n |-> k]] : n \in 0..MaxArr }

ExecutorFailures == {"APIError", "InvalidResponse"}
ProcessorFailures == {"InvalidResponse"}

\* The operations that place, cancel, update or replace orders.
OrderOperations == {"place_orders", "cancel_orders", "update_orders", "replace_orders"}

\* The bodies the remote API answers an order operation with: an execution
\* report carrying a status and, possibly, an error code.
ExecutionReports ==
    { [shape |-> "object", items |-> << [status |-> st.value, errorCode |-> ec] >>]
      : st \in Range(ExecutionReportStatus),
        ec \in { m.value : m \in Range(ExecutionReportErrorCode) } \cup {None} }

\* The bodies the executor can return to an operation under the current workload.
Bodies(op) ==
    IF workload = "reports" /\ op \in OrderOperations THEN ExecutionReports
    ELSE IF workload = "concurrent"
         THEN { b \in JsonBodies : b.shape = "object" \/ Len(b.items) = MaxArr }
    ELSE IF workload = "mutating"
         THEN { b \in JsonBodies : b.shape = "object" }
    ELSE JsonBodies

Init ==
    /\ active = {1}
    /\ inv = [i \in Slots |-> Idle]
    /\ workload = "calls"
    /\ defaults = DefaultsAtDefinition
    /\ lookup = NoLookup
    /\ seen = NoSeen

\* One caller making plain calls; order operations are answered with
\* execution reports.
InitReports ==
    /\ active = {1}
    /\ inv = [i \in Slots |-> Idle]
    /\ workload = "reports"
    /\ defaults = DefaultsAtDefinition
    /\ lookup = NoLookup
    /\ seen = NoSeen

\* An operation that hands locals() itself to the executor, uncleaned.
InvokeRawLocals(i, op, a, method, resource) ==
    /\ LET params == locals(op, a)
       IN  inv' = [inv EXCEPT ![i] =
                [ Idle EXCEPT !.pc = "request", !.op = op, !.args = a,
                              !.resource = resource,
                              !.sent = [method |-> method, params |-> params,
                                        session |-> locals(op, a)["session"]],
                              !.requests = 1 ]]
    /\ UNCHANGED env

\* An operation that also writes into its filter or date-range argument, which
\* is the shared default object when the caller passed none.
InvokeTouchesDefault(i, op, a, method, resource) ==
    /\ LET params == clean_locals(locals(op, a))
       IN  inv' = [inv EXCEPT ![i] =
                [ Idle EXCEPT !.pc = "request", !.op = op, !.args = a,
                              !.resource = resource,
                              !.sent = [method |-> method, params |-> params,
                                        session |-> locals(op, a)["session"]],
                              !.requests = 1 ]]
    /\ defaults' = [ o \in DOMAIN defaults |->
                       IF o[1] = op /\ a[o[2]] = Omitted THEN "{'touched': True}"
                       ELSE defaults[o] ]
    /\ UNCHANGED << active, workload, lookup, seen >>

\* The Python values that test false, None apart.
Falsy == { PyValue(t, FALSE) : t \in {"bool", "int", "float", "str", "list", "dict"} }

\* An operation that keeps a parameter only if its value tests true
\* (if v) instead of only if it is not None.
InvokeDropsFalsy(i, op, a, method, resource) ==
    /\ LET bound == locals(op, a)
           params == clean_locals([ k \in DOMAIN bound |->
                                      IF bound[k] \in Falsy THEN None ELSE bound[k] ])
       IN  inv' = [inv EXCEPT ![i] =
                [ Idle EXCEPT !.pc = "request", !.op = op, !.args = a,
                              !.resource = resource,
                              !.sent = [method |-> method, params |-> params,
                                        session |-> locals(op, a)["session"]],
                              !.requests = 1 ]]
    /\ UNCHANGED env

\* An operation that calls self.request(method, params) without the session.
InvokeNoSession(i, op, a, method, resource) ==
    /\ LET params == clean_locals(locals(op, a))
       IN  inv' = [inv EXCEPT ![i] =
                [ Idle EXCEPT !.pc = "request", !.op = op, !.args = a,
                              !.resource = resource,
                              !.sent = [method |-> method, params |-> params,
                                        session |-> None],
                              !.requests = 1 ]]
    /\ UNCHANGED env

\* The vocabulary a parameter's docstring draws its values from.
ParamVocabulary ==
       "granularity" :> "TimeGranularity"
    @@ "bet_status" :> "BetStatus"
    @@ "sort" :> "MarketSort"
    @@ "order_projection" :> "OrderProjection"
    @@ "match_projection" :> "MatchProjection"
    @@ "order_by" :> "OrderBy"
    @@ "sort_dir" :> "SortDir"
    @@ "side" :> "Side"
    @@ "group_by" :> "GroupBy"

\* repr() of a Python str without quotes or escapes in it.
Repr(str) == "'" \o str \o "'"

\* The argument is the repr of a member of the parameter's vocabulary.
IsMember(n, v) == \E m \in Range(Vocabulary[ParamVocabulary[n]]) : Repr(m.value) = v

\* An operation that validates vocabulary-typed arguments and raises ValueError
\* before it builds the request.
InvokeValidating(i, op, a, method, resource) ==
    /\ IF \E n \in ParamNames(op) \cap DOMAIN ParamVocabulary :
             a[n] \notin {Omitted, None} /\ ~IsMember(n, a[n])
       THEN inv' = [inv EXCEPT ![i] =
                [ Idle EXCEPT !.pc = "raised", !.op = op, !.args = a,
                              !.resource = resource, !.failure = "ValueError" ]]
       ELSE LET params == clean_locals(locals(op, a))
            IN  inv' = [inv EXCEPT ![i] =
                [ Idle EXCEPT !.pc = "request", !.op = op, !.args = a,
                              !.resource = resource,
                              !.sent = [method |-> method, params |-> params,
                                        session |-> locals(op, a)["session"]],
                              !.requests = 1 ]]
    /\ UNCHANGED env

\* Caller i is not inside an operation and may invoke one.
Callable(i) == i \in active /\ inv[i].pc = "idle"

\* The first three statements of every operation: params = clean_locals(locals()),
\* method = URI + remote name, and the call self.request(method, params, session),
\* which is now in flight.
Invoke(i, op, a, method, resource) ==
    /\ LET params == clean_locals(locals(op, a))
       IN  inv' = [inv EXCEPT ![i] =
                [ Idle EXCEPT !.pc = "request", !.op = op, !.args = a,
                              !.resource = resource,
                              !.sent = [method |-> method, params |-> params,
                                        session |-> locals(op, a)["session"]],
                              !.requests = 1 ]]
    /\ UNCHANGED env

\* list_event_types: params = clean_locals(locals()); method = "%s%s" % (self.URI, "listEventTypes");
\* self.request(method, params, session); the response is processed as resources.EventTypeResult.
list_event_types(i) ==
    /\ Callable(i)
    /\ \E a \in Arguments("list_event_types") :
         Invoke(i, "list_event_types", a, Format(URI, "listEventTypes"), "EventTypeResult")

\* list_competitions: params = clean_locals(locals()); method = "%s%s" % (self.URI, "listCompetitions");
\* self.request(method, params, session); the response is processed as resources.CompetitionResult.
list_competitions(i) ==
    /\ Callable(i)
    /\ \E a \in Arguments("list_competitions") :
         Invoke(i, "list_competitions", a, Format(URI, "listCompetitions"), "CompetitionResult")

\* list_time_ranges: params = clean_locals(locals()); method = "%s%s" % (self.URI, "listTimeRanges");
\* self.request(method, params, session); the response is processed as resources.TimeRangeResult.
list_time_ranges(i) ==
    /\ Callable(i)
    /\ \E a \in Arguments("list_time_ranges") :
         Invoke(i, "list_time_ranges", a, Format(URI, "listTimeRanges"), "TimeRangeResult")

\* list_events: params = clean_locals(locals()); method = "%s%s" % (self.URI, "listEvents");
\* self.request(method, params, session); the response is processed as resources.EventResult.
list_events(i) ==
    /\ Callable(i)
    /\ \E a \in Arguments("list_events") :
         Invoke(i, "list_events", a, Format(URI, "listEvents"), "EventResult")

\* list_market_types: params = clean_locals(locals()); method = "%s%s" % (self.URI, "listMarketTypes");
\* self.request(method, params, session); the response is processed as resources.MarketTypeResult.
list_market_types(i) ==
    /\ Callable(i)
    /\ \E a \in Arguments("list_market_types") :
         Invoke(i, "list_market_types", a, Format(URI, "listMarketTypes"), "MarketTypeResult")

\* list_countries: params = clean_locals(locals()); method = "%s%s" % (self.URI, "listCountries");
\* self.request(method, params, session); the response is processed as resources.CountryResult.
list_countries(i) ==
    /\ Callable(i)
    /\ \E a \in Arguments("list_countries") :
         Invoke(i, "list_countries", a, Format(URI, "listCountries"), "CountryResult")

\* list_venues: params = clean_locals(locals()); method = "%s%s" % (self.URI, "listVenues");
\* self.request(method, params, session); the response is processed as resources.VenueResult.
list_venues(i) ==
    /\ Callable(i)
    /\ \E a \in Arguments("list_venues") :
         Invoke(i, "list_venues", a, Format(URI, "listVenues"), "VenueResult")

\* list_market_catalogue: params = clean_locals(locals()); method = "%s%s" % (self.URI, "listMarketCatalogue");
\* self.request(method, params, session); the response is processed as resources.MarketCatalogue.
list_market_catalogue(i) ==
    /\ Callable(i)
    /\ \E a \in Arguments("list_market_catalogue") :
         Invoke(i, "list_market_catalogue", a, Format(URI, "listMarketCatalogue"), "MarketCatalogue")

\* list_market_book dispatched under list_runner_book's remote method.
list_market_book_as_runner_book(i) ==
    /\ Callable(i)
    /\ \E a \in Arguments("list_market_book") :
         Invoke(i, "list_market_book", a, Format(URI, "listRunnerBook"), "MarketBook")

\* list_market_book: params = clean_locals(locals()); method = "%s%s" % (self.URI, "listMarketBook");
\* self.request(method, params, session); the response is processed as resources.MarketBook.
list_market_book(i) ==
    /\ Callable(i)
    /\ \E a \in Arguments("list_market_book") :
         Invoke(i, "list_market_book", a, Format(URI, "listMarketBook"), "MarketBook")

\* list_runner_book that asks for a result type of its own.
list_runner_book_own_type(i) ==
    /\ Callable(i)
    /\ \E a \in Arguments("list_runner_book") :
         Invoke(i, "list_runner_book", a, Format(URI, "listRunnerBook"), "RunnerBook")

\* list_runner_book: params = clean_locals(locals()); method = "%s%s" % (self.URI, "listRunnerBook");
\* self.request(method, params, session); the response is processed as resources.MarketBook.
list_runner_book(i) ==
    /\ Callable(i)
    /\ \E a \in Arguments("list_runner_book") :
         Invoke(i, "list_runner_book", a, Format(URI, "listRunnerBook"), "MarketBook")

\* list_current_orders: params = clean_locals(locals()); method = "%s%s" % (self.URI, "listCurrentOrders");
\* self.request(method, params, session); the response is processed as resources.CurrentOrders.
list_current_orders(i) ==
    /\ Callable(i)
    /\ \E a \in Arguments("list_current_orders") :
         Invoke(i, "list_current_orders", a, Format(URI, "listCurrentOrders"), "CurrentOrders")

\* list_cleared_orders: params = clean_locals(locals()); method = "%s%s" % (self.URI, "listClearedOrders");
\* self.request(method, params, session); the response is processed as resources.ClearedOrders.
list_cleared_orders(i) ==
    /\ Callable(i)
    /\ \E a \in Arguments("list_cleared_orders") :
         Invoke(i, "list_cleared_orders", a, Format(URI, "listClearedOrders"), "ClearedOrders")

\* list_market_profit_and_loss: params = clean_locals(locals()); method = "%s%s" % (self.URI, "listMarketProfitAndLoss");
\* self.request(method, params, session); the response is processed as resources.MarketProfitLoss.
list_market_profit_and_loss(i) ==
    /\ Callable(i)
    /\ \E a \in Arguments("list_market_profit_and_loss") :
         Invoke(i, "list_market_profit_and_loss", a, Format(URI, "listMarketProfitAndLoss"), "MarketProfitLoss")

\* place_orders: params = clean_locals(locals()); method = "%s%s" % (self.URI, "placeOrders");
\* self.request(method, params, session); the response is processed as resources.PlaceOrders.
place_orders(i) ==
    /\ Callable(i)
    /\ \E a \in Arguments("place_orders") :
         Invoke(i, "place_orders", a, Format(URI, "placeOrders"), "PlaceOrders")

\* cancel_orders: params = clean_locals(locals()); method = "%s%s" % (self.URI, "cancelOrders");
\* self.request(method, params, session); the response is processed as resources.CancelOrders.
cancel_orders(i) ==
    /\ Callable(i)
    /\ \E a \in Arguments("cancel_orders") :
         Invoke(i, "cancel_orders", a, Format(URI, "cancelOrders"), "CancelOrders")

\* update_orders: params = clean_locals(locals()); method = "%s%s" % (self.URI, "updateOrders");
\* self.request(method, params, session); the response is processed as resources.UpdateOrders.
update_orders(i) ==
    /\ Callable(i)
    /\ \E a \in Arguments("update_orders") :
         Invoke(i, "update_orders", a, Format(URI, "updateOrders"), "UpdateOrders")

\* replace_orders: params = clean_locals(locals()); method = "%s%s" % (self.URI, "replaceOrders");
\* self.request(method, params, session); the response is processed as resources.ReplaceOrders.
replace_orders(i) ==
    /\ Callable(i)
    /\ \E a \in Arguments("replace_orders") :
         Invoke(i, "replace_orders", a, Format(URI, "replaceOrders"), "ReplaceOrders")
\* BaseEndpoint.request returns (response, response_json, elapsed_time); the
\* operation unpacks the tuple.
request_returns(i) ==
    /\ i \in active
    /\ inv[i].pc = "request"
    /\ \E json \in Bodies(inv[i].op), elapsed \in 1..MaxElapsed :
         inv' = [inv EXCEPT ![i].pc = "response",
                            ![i].response_json = json,
                            ![i].elapsed_time = elapsed]
    /\ UNCHANGED env

\* An operation that catches the executor's failure and carries on with an
\* empty body.
request_raises_swallowed(i) ==
    /\ i \in active
    /\ inv[i].pc = "request"
    /\ \E f \in ExecutorFailures :
         inv' = [inv EXCEPT ![i].pc = "response", ![i].exec_failure = f,
                            ![i].response_json = [shape |-> "array", items |-> << >>],
                            ![i].elapsed_time = 1]
    /\ UNCHANGED env

\* An operation that calls the executor a second time after a failure.
request_raises_retry(i) ==
    /\ i \in active
    /\ inv[i].pc = "request"
    /\ \E f \in ExecutorFailures :
         IF inv[i].requests < 2
         THEN inv' = [inv EXCEPT ![i].requests = inv[i].requests + 1]
         ELSE inv' = [inv EXCEPT ![i].pc = "raised", ![i].exec_failure = f,
                                 ![i].failure = f]
    /\ UNCHANGED env

\* BaseEndpoint.request raises: no operation has a try block, so the failure
\* leaves the operation as raised.
request_raises(i) ==
    /\ i \in active
    /\ inv[i].pc = "request"
    /\ \E f \in ExecutorFailures :
         inv' = [inv EXCEPT ![i].pc = "raised", ![i].exec_failure = f,
                            ![i].failure = f]
    /\ UNCHANGED env

\* BaseEndpoint.process_response's result for (response_json, resource,
\* elapsed_time, lightweight): the JSON itself when raw output is selected,
\* otherwise one typed instance per JSON object, each with the elapsed time.
process(response_json, resource, elapsed_time, lightweight) ==
    IF lightweight = "True"
    THEN [kind |-> "json", value |-> response_json]
    ELSE [kind |-> "typed", shape |-> response_json.shape,
          instances |-> [k \in DOMAIN response_json.items |->
                           [resource |-> resource, elapsed_time |-> elapsed_time,
                            data |-> response_json.items[k]]]]

\* A return statement that reads the body and the elapsed time from where the
\* instance last stored them: another caller's, if that one got its response.
ProcessArgsOfInstance(i) ==
    LET others == { j \in active \ {i} : inv[j].pc \in {"response", "returned"} }
        k == IF others = {} THEN i ELSE CHOOSE j \in others : TRUE
    IN  [ response_json |-> inv[k].response_json, resource |-> inv[i].resource,
          elapsed_time |-> inv[k].elapsed_time,
          lightweight |-> locals(inv[i].op, inv[i].args)["lightweight"] ]

\* The return statement without the caller's selector.
ProcessArgsNoSelector(i) ==
    [ response_json |-> inv[i].response_json, resource |-> inv[i].resource,
      elapsed_time |-> inv[i].elapsed_time,
      lightweight |-> None ]

\* The return statement without the executor's elapsed time.
ProcessArgsNoElapsed(i) ==
    [ response_json |-> inv[i].response_json, resource |-> inv[i].resource,
      elapsed_time |-> 0,
      lightweight |-> locals(inv[i].op, inv[i].args)["lightweight"] ]

\* The arguments of the return statement's self.process_response(...) call.
ProcessArgs(i) ==
    [ response_json |-> inv[i].response_json, resource |-> inv[i].resource,
      elapsed_time |-> inv[i].elapsed_time,
      lightweight |-> locals(inv[i].op, inv[i].args)["lightweight"] ]

\* An operation that returns the body as it is, without the processor.
process_response_returns_unprocessed(i) ==
    /\ i \in active
    /\ inv[i].pc = "response"
    /\ inv' = [inv EXCEPT ![i].pc = "returned",
                           ![i].result = [kind |-> "json", value |-> inv[i].response_json]]
    /\ UNCHANGED env

\* An order operation that inspects the report and raises on a FAILURE status
\* instead of handing the body to the processor.
process_response_returns_checked(i) ==
    /\ i \in active
    /\ inv[i].pc = "response"
    /\ IF /\ workload = "reports"
          /\ inv[i].op \in OrderOperations
          /\ inv[i].response_json.items[1].status = "FAILURE"
       THEN inv' = [inv EXCEPT ![i].pc = "raised", ![i].failure = "APIError"]
       ELSE LET p == ProcessArgs(i)
            IN  inv' = [inv EXCEPT ![i].pc = "returned",
                                   ![i].processed = p,
                                   ![i].processes = inv[i].processes + 1,
                                   ![i].result = process(p.response_json, p.resource,
                                                         p.elapsed_time, p.lightweight)]
    /\ UNCHANGED env

\* return self.process_response(response_json, resources.X, elapsed_time, lightweight)
process_response_returns(i) ==
    /\ i \in active
    /\ inv[i].pc = "response"
    /\ LET p == ProcessArgs(i)
       IN  inv' = [inv EXCEPT ![i].pc = "returned",
                              ![i].processed = p,
                              ![i].processes = inv[i].processes + 1,
                              ![i].result = process(p.response_json, p.resource,
                                                    p.elapsed_time, p.lightweight)]
    /\ UNCHANGED env

\* A return statement inside try/except that raises a failure of its own in
\* place of the processor's.
process_response_raises_wrapped(i) ==
    /\ i \in active
    /\ inv[i].pc = "response"
    /\ \E f \in ProcessorFailures :
         inv' = [inv EXCEPT ![i].pc = "raised",
                            ![i].processed = ProcessArgs(i),
                            ![i].processes = inv[i].processes + 1,
                            ![i].proc_failure = f,
                            ![i].failure = "BetfairError"]
    /\ UNCHANGED env

\* self.process_response(...) raises, whatever the body and the selector; the
\* return statement has no handler, so the caller gets that failure.
process_response_raises(i) ==
    /\ i \in active
    /\ inv[i].pc = "response"
    /\ \E f \in ProcessorFailures :
         inv' = [inv EXCEPT ![i].pc = "raised",
                            ![i].processed = ProcessArgs(i),
                            ![i].processes = inv[i].processes + 1,
                            ![i].proc_failure = f,
                            ![i].failure = f]
    /\ UNCHANGED env

\* The caller has its result or failure; the call's state is discarded.  Under
\* the sequence workload the observer may remember what this call sent.
Discard(i) ==
    /\ i \in active
    /\ inv[i].pc \in {"returned", "raised"}
    /\ inv' = [inv EXCEPT ![i] = Idle]
    /\ seen' \in IF workload = "sequence"
                 THEN { seen,
                        [op |-> inv[i].op, args |-> inv[i].args,
                         method |-> inv[i].sent.method, params |-> inv[i].sent.params,
                         outcome |-> inv[i].pc] }
                 ELSE { seen }
    /\ UNCHANGED << active, workload, defaults, lookup >>

Next ==
    \E i \in Slots :
        \/ list_event_types(i)
        \/ list_competitions(i)
        \/ list_time_ranges(i)
        \/ list_events(i)
        \/ list_market_types(i)
        \/ list_countries(i)
        \/ list_venues(i)
        \/ list_market_catalogue(i)
        \/ list_market_book(i)
        \/ list_runner_book(i)
        \/ list_current_orders(i)
        \/ list_cleared_orders(i)
        \/ list_market_profit_and_loss(i)
        \/ place_orders(i)
        \/ cancel_orders(i)
        \/ update_orders(i)
        \/ replace_orders(i)
        \/ request_returns(i)
        \/ request_raises(i)
        \/ process_response_returns(i)
        \/ process_response_raises(i)
        \/ Discard(i)

Spec == Init /\ [][Next]_vars

\* One caller making plain calls one after the other, of which the observer
\* remembers one.
InitSequence ==
    /\ active = {1}
    /\ inv = [i \in Slots |-> Idle]
    /\ workload = "sequence"
    /\ defaults = DefaultsAtDefinition
    /\ lookup = NoLookup
    /\ seen = NoSeen

SpecSequence == InitSequence /\ [][Next]_vars

\* Two callers (threads) making plain calls on the same instance; their steps
\* interleave in any order.
InitConcurrent ==
    /\ active = {1, 2}
    /\ inv = [i \in Slots |-> Idle]
    /\ workload = "concurrent"
    /\ defaults = DefaultsAtDefinition
    /\ lookup = NoLookup
    /\ seen = NoSeen

SpecConcurrent == InitConcurrent /\ [][Next]_vars

SpecReports == InitReports /\ [][Next]_vars

\* What a collaborator leaves in a mapping it wrote an entry into.
Touched == "{'touched': True}"

\* The executor writes an entry into a mapping-valued parameter it was handed.
\* The values of params are the objects locals() held, so for an argument the
\* caller left out the mapping written into is the default object of the def
\* statement.
request_modifies_params(i) ==
    /\ i \in active
    /\ inv[i].pc = "request"
    /\ \E o \in DOMAIN defaults :
         /\ o[1] = inv[i].op
         /\ inv[i].args[o[2]] = Omitted
         /\ CamelCase[o[2]] \in DOMAIN inv[i].sent.params
         /\ defaults[o] # Touched
         /\ defaults' = [defaults EXCEPT ![o] = Touched]
    /\ UNCHANGED << inv, active, workload, lookup, seen >>

\* One caller making plain calls one after the other, with an executor that
\* may write into the mappings it is handed.
InitMutating ==
    /\ active = {1}
    /\ inv = [i \in Slots |-> Idle]
    /\ workload = "mutating"
    /\ defaults = DefaultsAtDefinition
    /\ lookup = NoLookup
    /\ seen = NoSeen

NextMutating ==
    \/ Next
    \/ \E i \in Slots : request_modifies_params(i)

SpecMutating == InitMutating /\ [][NextMutating]_vars

\* ---------------------------------------------------------------- vocabulary use
\* Vocab.NAME: a client names a member of a vocabulary.
member_access ==
    /\ lookup.pc = "none"
    /\ \E vocab \in DOMAIN Vocabulary :
         \E k \in DOMAIN Vocabulary[vocab] :
            lookup' = [NoLookup EXCEPT !.pc = "member", !.vocab = vocab,
                                       !.name = Vocabulary[vocab][k].name]
    /\ UNCHANGED << inv, active, workload, defaults, seen >>

\* .value: the string the member is transmitted as.
member_value ==
    /\ lookup.pc = "member"
    /\ lookup' = [lookup EXCEPT !.pc = "value",
                                !.value = value_of(lookup.vocab, lookup.name)]
    /\ UNCHANGED << inv, active, workload, defaults, seen >>

\* Vocab(value): the member a received string stands for.
value_lookup ==
    /\ lookup.pc = "value"
    /\ lookup' = [lookup EXCEPT !.pc = "found",
                                !.found = member_by_value(lookup.vocab, lookup.value)]
    /\ UNCHANGED << inv, active, workload, defaults, seen >>

\* The client is done with the member.
forget ==
    /\ lookup.pc = "found"
    /\ lookup' = NoLookup
    /\ UNCHANGED << inv, active, workload, defaults, seen >>

\* No operation is invoked; a client walks the vocabularies.
InitVocabulary ==
    /\ active = {}
    /\ inv = [i \in Slots |-> Idle]
    /\ workload = "vocabulary"
    /\ defaults = DefaultsAtDefinition
    /\ lookup = NoLookup
    /\ seen = NoSeen

NextVocabulary == member_access \/ member_value \/ value_lookup \/ forget

SpecVocabulary == InitVocabulary /\ [][NextVocabulary]_vars

\* ---------------------------------------------------------------- properties
TypeOK == \A i \in Slots : inv[i].pc \in {"idle", "request", "response", "returned", "raised"}

\* The argument was not passed, or was passed as None.
Unset(v) == v \in {Omitted, None}

\* The caller-facing parameters other than the session handle and the selector.
WireParams(op) == ParamNames(op) \ {"session", "lightweight"}

\* The remote API's fully-qualified method of each operation.
RemoteMethod ==
       "list_event_types" :> "SportsAPING/v1.0/listEventTypes"
    @@ "list_competitions" :> "SportsAPING/v1.0/listCompetitions"
    @@ "list_time_ranges" :> "SportsAPING/v1.0/listTimeRanges"
    @@ "list_events" :> "SportsAPING/v1.0/listEvents"
    @@ "list_market_types" :> "SportsAPING/v1.0/listMarketTypes"
    @@ "list_countries" :> "SportsAPING/v1.0/listCountries"
    @@ "list_venues" :> "SportsAPING/v1.0/listVenues"
    @@ "list_market_catalogue" :> "SportsAPING/v1.0/listMarketCatalogue"
    @@ "list_market_book" :> "SportsAPING/v1.0/listMarketBook"
    @@ "list_runner_book" :> "SportsAPING/v1.0/listRunnerBook"
    @@ "list_current_orders" :> "SportsAPING/v1.0/listCurrentOrders"
    @@ "list_cleared_orders" :> "SportsAPING/v1.0/listClearedOrders"
    @@ "list_market_profit_and_loss" :> "SportsAPING/v1.0/listMarketProfitAndLoss"
    @@ "place_orders" :> "SportsAPING/v1.0/placeOrders"
    @@ "cancel_orders" :> "SportsAPING/v1.0/cancelOrders"
    @@ "update_orders" :> "SportsAPING/v1.0/updateOrders"
    @@ "replace_orders" :> "SportsAPING/v1.0/replaceOrders"

\* The remote API's field name of each caller-facing parameter.
RemoteField ==
       "filter" :> "filter"
    @@ "locale" :> "locale"
    @@ "granularity" :> "granularity"
    @@ "market_projection" :> "marketProjection"
    @@ "sort" :> "sort"
    @@ "max_results" :> "maxResults"
    @@ "market_ids" :> "marketIds"
    @@ "price_projection" :> "priceProjection"
    @@ "order_projection" :> "orderProjection"
    @@ "match_projection" :> "matchProjection"
    @@ "include_overall_position" :> "includeOverallPosition"
    @@ "partition_matched_by_strategy_ref" :> "partitionMatchedByStrategyRef"
    @@ "customer_strategy_refs" :> "customerStrategyRefs"
    @@ "currency_code" :> "currencyCode"
    @@ "matched_since" :> "matchedSince"
    @@ "bet_ids" :> "betIds"
    @@ "market_id" :> "marketId"
    @@ "selection_id" :> "selectionId"
    @@ "handicap" :> "handicap"
    @@ "customer_order_refs" :> "customerOrderRefs"
    @@ "date_range" :> "dateRange"
    @@ "order_by" :> "orderBy"
    @@ "sort_dir" :> "sortDir"
    @@ "from_record" :> "fromRecord"
    @@ "record_count" :> "recordCount"
    @@ "include_item_description" :> "includeItemDescription"
    @@ "bet_status" :> "betStatus"
    @@ "event_type_ids" :> "eventTypeIds"
    @@ "event_ids" :> "eventIds"
    @@ "runner_ids" :> "runnerIds"
    @@ "side" :> "side"
    @@ "settled_date_range" :> "settledDateRange"
    @@ "group_by" :> "groupBy"
    @@ "include_settled_bets" :> "includeSettledBets"
    @@ "include_bsp_bets" :> "includeBspBets"
    @@ "net_of_commission" :> "netOfCommission"
    @@ "instructions" :> "instructions"
    @@ "customer_ref" :> "customerRef"
    @@ "market_version" :> "marketVersion"
    @@ "customer_strategy_ref" :> "customerStrategyRef"
    @@ "async_" :> "async"

\* The result type each operation's typed output is built from.
ResultType ==
       "list_event_types" :> "EventTypeResult"
    @@ "list_competitions" :> "CompetitionResult"
    @@ "list_time_ranges" :> "TimeRangeResult"
    @@ "list_events" :> "EventResult"
    @@ "list_market_types" :> "MarketTypeResult"
    @@ "list_countries" :> "CountryResult"
    @@ "list_venues" :> "VenueResult"
    @@ "list_market_catalogue" :> "MarketCatalogue"
    @@ "list_market_book" :> "MarketBook"
    @@ "list_runner_book" :> "MarketBook"
    @@ "list_current_orders" :> "CurrentOrders"
    @@ "list_cleared_orders" :> "ClearedOrders"
    @@ "list_market_profit_and_loss" :> "MarketProfitLoss"
    @@ "place_orders" :> "PlaceOrders"
    @@ "cancel_orders" :> "CancelOrders"
    @@ "update_orders" :> "UpdateOrders"
    @@ "replace_orders" :> "ReplaceOrders"

\* C1: for every operation and all arguments, the method name handed to the
\* executor is "SportsAPING/v1.0/" followed by the operation's remote method name.
C1_MethodName ==
    \A i \in Slots :
        inv[i].pc # "idle" => inv[i].sent.method = RemoteMethod[inv[i].op]

C1_Witness ==
    /\ inv[1].pc = "request"
    /\ inv[1].op = "list_market_book"
    /\ inv[1].sent.method = "SportsAPING/v1.0/listMarketBook"

\* C2: for every parameter other than session and lightweight, a parameter left
\* at its unset default has no field in the mapping handed to the executor, and
\* a supplied value is bound, unchanged, to the remote API's camel-case field name.
C2_FieldsPresentOrAbsent ==
    \A i \in Slots :
        inv[i].pc # "idle" =>
            \A n \in WireParams(inv[i].op) :
                /\ (inv[i].args[n] = Omitted /\ ParamOf(inv[i].op, n).default = None)
                       => RemoteField[n] \notin DOMAIN inv[i].sent.params
                /\ ~Unset(inv[i].args[n])
                       => /\ RemoteField[n] \in DOMAIN inv[i].sent.params
                          /\ inv[i].sent.params[RemoteField[n]] = inv[i].args[n]

C2_Witness ==
    /\ inv[1].pc = "request"
    /\ inv[1].op = "list_market_book"
    /\ inv[1].args["market_ids"] = "['a']"
    /\ inv[1].args["partition_matched_by_strategy_ref"] = Omitted
    /\ "marketIds" \in DOMAIN inv[1].sent.params
    /\ inv[1].sent.params["marketIds"] = "['a']"
    /\ "partitionMatchedByStrategyRef" \notin DOMAIN inv[1].sent.params

\* C3: the mapping handed to the executor never has a field for the session
\* handle or the lightweight selector (nor for self), also when the caller
\* supplies both: it has only wire parameters of the operation.
C3_NoTransportFields ==
    \A i \in Slots :
        inv[i].pc # "idle" =>
            /\ DOMAIN inv[i].sent.params \cap {"session", "lightweight", "self"} = {}
            /\ DOMAIN inv[i].sent.params
                   \subseteq { RemoteField[n] : n \in WireParams(inv[i].op) }

C3_Witness ==
    /\ inv[1].pc = "request"
    /\ inv[1].op = "place_orders"
    /\ inv[1].args["session"] = SessionObj
    /\ inv[1].args["lightweight"] = "True"
    /\ DOMAIN inv[1].sent.params = {"marketId", "instructions"}

\* C4: an omitted parameter with a documented default is transmitted with that
\* default: maxResults = 1, betStatus = "SETTLED", granularity = "DAYS".
C4_DocumentedDefaults ==
    \A i \in Slots :
        inv[i].pc # "idle" =>
            /\ (inv[i].op = "list_market_catalogue" /\ inv[i].args["max_results"] = Omitted)
                   => /\ "maxResults" \in DOMAIN inv[i].sent.params
                      /\ inv[i].sent.params["maxResults"] = "1"
            /\ (inv[i].op = "list_cleared_orders" /\ inv[i].args["bet_status"] = Omitted)
                   => /\ "betStatus" \in DOMAIN inv[i].sent.params
                      /\ inv[i].sent.params["betStatus"] = "'SETTLED'"
            /\ (inv[i].op = "list_time_ranges" /\ inv[i].args["granularity"] = Omitted)
                   => /\ "granularity" \in DOMAIN inv[i].sent.params
                      /\ inv[i].sent.params["granularity"] = "'DAYS'"

C4_Witness ==
    /\ inv[1].pc = "request"
    /\ inv[1].op = "list_cleared_orders"
    /\ inv[1].args["bet_status"] = Omitted
    /\ inv[1].args["side"] = "'x'"
    /\ inv[1].sent.params["betStatus"] = "'SETTLED'"

\* C5: list_event_types called with filter = {} and nothing else hands the
\* executor a mapping whose only field is filter, bound to the empty mapping.
C5_OnlyFilter ==
    \A i \in Slots :
        ( /\ inv[i].pc # "idle"
          /\ inv[i].op = "list_event_types"
          /\ inv[i].args["filter"] = "{}"
          /\ inv[i].args["locale"] = Omitted )
            => /\ DOMAIN inv[i].sent.params = {"filter"}
               /\ inv[i].sent.params["filter"] = "{}"

C5_Witness ==
    /\ inv[1].pc = "request"
    /\ inv[1].op = "list_event_types"
    /\ inv[1].args["filter"] = "{}"
    /\ inv[1].args["locale"] = Omitted
    /\ DOMAIN inv[1].sent.params = {"filter"}

\* C6 as stated: cancel_orders called with no market id and no instructions
\* hands the executor an empty mapping under SportsAPING/v1.0/cancelOrders.
C6_CancelAllAsStated ==
    \A i \in Slots :
        ( /\ inv[i].pc # "idle"
          /\ inv[i].op = "cancel_orders"
          /\ Unset(inv[i].args["market_id"])
          /\ Unset(inv[i].args["instructions"]) )
            => /\ DOMAIN inv[i].sent.params = {}
               /\ inv[i].sent.method = "SportsAPING/v1.0/cancelOrders"

\* C6 (amended): cancel_orders called with no market id, no instructions and
\* no customer ref hands the executor an empty mapping under
\* SportsAPING/v1.0/cancelOrders; a supplied customer ref is transmitted.
C6_CancelAll ==
    \A i \in Slots :
        ( /\ inv[i].pc # "idle"
          /\ inv[i].op = "cancel_orders"
          /\ Unset(inv[i].args["market_id"])
          /\ Unset(inv[i].args["instructions"]) )
            => /\ inv[i].sent.method = "SportsAPING/v1.0/cancelOrders"
               /\ Unset(inv[i].args["customer_ref"])
                     => DOMAIN inv[i].sent.params = {}
               /\ ~Unset(inv[i].args["customer_ref"])
                     => DOMAIN inv[i].sent.params = {"customerRef"}

C6_Witness ==
    /\ inv[1].pc = "request"
    /\ inv[1].op = "cancel_orders"
    /\ \A n \in {"market_id", "instructions", "customer_ref"} : inv[1].args[n] = Omitted
    /\ DOMAIN inv[1].sent.params = {}
    /\ inv[1].sent.method = "SportsAPING/v1.0/cancelOrders"

\* C7: with the lightweight selector set, the value returned to the caller is
\* exactly the parsed JSON the executor returned for that call.
C7_RawIsIdentity ==
    \A i \in Slots :
        (inv[i].pc = "returned" /\ inv[i].args["lightweight"] = "True")
            => inv[i].result = [kind |-> "json", value |-> inv[i].response_json]

C7_Witness ==
    /\ inv[1].pc = "returned"
    /\ inv[1].args["lightweight"] = "True"
    /\ inv[1].response_json = [shape |-> "array", items |-> << 1, 2 >>]
    /\ inv[1].result = [kind |-> "json", value |-> [shape |-> "array", items |-> << 1, 2 >>]]

\* C8: with the lightweight selector unset, a call that returns gives typed
\* instances of the operation's result type, one for a JSON object and N for a
\* JSON array of length N, each with the elapsed time the executor reported.
C8_TypedInstances ==
    \A i \in Slots :
        (inv[i].pc = "returned" /\ inv[i].args["lightweight"] # "True")
            => /\ inv[i].result.kind = "typed"
               /\ inv[i].result.shape = inv[i].response_json.shape
               /\ inv[i].response_json.shape = "object"
                     => Len(inv[i].result.instances) = 1
               /\ inv[i].response_json.shape = "array"
                     => Len(inv[i].result.instances) = Len(inv[i].response_json.items)
               /\ \A k \in DOMAIN inv[i].result.instances :
                     /\ inv[i].result.instances[k].resource = ResultType[inv[i].op]
                     /\ inv[i].result.instances[k].elapsed_time = inv[i].elapsed_time
                     /\ inv[i].result.instances[k].data = inv[i].response_json.items[k]

C8_Witness ==
    /\ inv[1].pc = "returned"
    /\ inv[1].op = "list_market_profit_and_loss"
    /\ inv[1].args["lightweight"] = Omitted
    /\ inv[1].response_json.shape = "array"
    /\ Len(inv[1].response_json.items) = 2
    /\ inv[1].elapsed_time = 2
    /\ Len(inv[1].result.instances) = 2
    /\ inv[1].result.instances[2].elapsed_time = 2

\* C9: when the executor raises, the invocation ends with that same failure,
\* the response processor is never invoked and no result is returned.
C9_ExecutorFailurePropagates ==
    \A i \in Slots :
        inv[i].exec_failure # "" =>
            /\ inv[i].pc = "raised"
            /\ inv[i].failure = inv[i].exec_failure
            /\ inv[i].processes = 0
            /\ inv[i].processed = NoProcessed
            /\ inv[i].result = NoResult

C9_Witness ==
    /\ inv[1].pc = "raised"
    /\ inv[1].op = "place_orders"
    /\ inv[1].exec_failure = "APIError"
    /\ inv[1].failure = "APIError"
    /\ inv[1].processes = 0

\* C10: every invocation calls the executor exactly once, whether the call
\* succeeds or fails; from_record and record_count cause no further request and
\* are passed through as fromRecord and recordCount.
C10_OneRequest ==
    \A i \in Slots :
        inv[i].pc # "idle" =>
            /\ inv[i].requests = 1
            /\ \A n \in {"from_record", "record_count"} \cap ParamNames(inv[i].op) :
                  ~Unset(inv[i].args[n])
                      => /\ RemoteField[n] \in DOMAIN inv[i].sent.params
                         /\ inv[i].sent.params[RemoteField[n]] = inv[i].args[n]

C10_Witness ==
    /\ inv[1].pc = "raised"
    /\ inv[1].op = "list_current_orders"
    /\ inv[1].args["from_record"] = "7"
    /\ inv[1].sent.params["fromRecord"] = "7"
    /\ inv[1].requests = 1

\* The execution report the executor returned to invocation i.
ReportOf(i) == inv[i].response_json.items[1]

\* The outcome of an order operation whose executor returned a FAILURE report.
FailureReported(i) ==
    /\ workload = "reports"
    /\ inv[i].op \in OrderOperations
    /\ inv[i].pc \in {"returned", "raised"}
    /\ inv[i].exec_failure = ""
    /\ ReportOf(i).status = "FAILURE"

\* The result of invocation i carries the status and the error code of the report.
CarriesReport(i) ==
    IF inv[i].result.kind = "json"
    THEN inv[i].result.value.items[1] = ReportOf(i)
    ELSE /\ inv[i].result.kind = "typed"
         /\ inv[i].result.instances[1].data.status = ReportOf(i).status
         /\ inv[i].result.instances[1].data.errorCode = ReportOf(i).errorCode

\* C11 as stated: when the executor returns normally with a body whose status
\* is FAILURE (with any error code), an order operation returns a result
\* carrying that status and error code; the invocation does not end in a failure.
C11_FailureStatusAlwaysReturns ==
    \A i \in Slots :
        FailureReported(i)
            => /\ inv[i].pc = "returned"
               /\ inv[i].failure = ""
               /\ CarriesReport(i)

\* C11 (amended): when the executor returns normally with a body whose status
\* is FAILURE (with any error code), an order operation hands that body to the
\* processor and raises nothing of its own: unless the processor itself raised,
\* the invocation returns, and the result carries that status and error code;
\* a failure it ends with is the processor's.
C11_FailureStatusIsAResult ==
    \A i \in Slots :
        FailureReported(i)
            => /\ inv[i].processes = 1
               /\ inv[i].processed.response_json = inv[i].response_json
               /\ inv[i].proc_failure = ""
                     => /\ inv[i].pc = "returned"
                        /\ inv[i].failure = ""
                        /\ CarriesReport(i)
               /\ inv[i].proc_failure # ""
                     => /\ inv[i].pc = "raised"
                        /\ inv[i].failure = inv[i].proc_failure
                        /\ inv[i].result = NoResult

C11_Witness ==
    /\ workload = "reports"
    /\ inv[1].pc = "returned"
    /\ inv[1].op = "place_orders"
    /\ inv[1].args["lightweight"] = Omitted
    /\ ReportOf(1).status = "FAILURE"
    /\ ReportOf(1).errorCode = "MARKET_SUSPENDED"
    /\ inv[1].result.kind = "typed"
    /\ inv[1].result.instances[1].data.status = "FAILURE"
    /\ inv[1].result.instances[1].data.errorCode = "MARKET_SUSPENDED"

\* C12: for every vocabulary and every member, the wire value is the string
\* equal to the declared name, and no other member of the same vocabulary has
\* that value (looking the value up gives the member back).
C12_ValueIsName ==
    /\ lookup.pc \in {"value", "found"}
          => /\ lookup.value = lookup.name
             /\ \A m \in Range(Vocabulary[lookup.vocab]) :
                   m.name # lookup.name => m.value # lookup.value
    /\ lookup.pc = "found" => lookup.found = lookup.name

C12_Witness ==
    /\ lookup.pc = "found"
    /\ lookup.vocab = "InstructionReportErrorCode"
    /\ lookup.name = "INVALID_BET_SIZE"
    /\ lookup.value = "INVALID_BET_SIZE"
    /\ lookup.found = "INVALID_BET_SIZE"

\* C15 as stated: no two vocabulary members share a wire value, over all the
\* vocabularies of the module together.
C15_NoSharedValueAnywhere ==
    lookup.pc \in {"value", "found"}
        => \A vocab \in DOMAIN Vocabulary :
              \A m \in Range(Vocabulary[vocab]) :
                 (vocab # lookup.vocab \/ m.name # lookup.name) => m.value # lookup.value

\* C15 (amended): within one vocabulary a wire value belongs to exactly one
\* member; vocabularies share wire values among them, so a value identifies a
\* member only together with its vocabulary.
C15_ValueUniqueInVocabulary ==
    lookup.pc = "found"
        => /\ Cardinality({ k \in DOMAIN Vocabulary[lookup.vocab] :
                               Vocabulary[lookup.vocab][k].value = lookup.value }) = 1
           /\ value_of(lookup.vocab, lookup.found) = lookup.value

C15_Witness ==
    /\ lookup.pc = "found"
    /\ lookup.vocab = "OrderProjection"
    /\ lookup.value = "EXECUTABLE"
    /\ lookup.found = "EXECUTABLE"
    /\ \E m \in Range(Vocabulary["OrderStatus"]) : m.value = "EXECUTABLE"

\* C13: operations are stateless and independent: an invocation of the same
\* operation with arguments equal to those of an earlier invocation hands the
\* executor the same method name and an equal mapping, whatever was invoked in
\* between and whatever those invocations returned or raised.
C13_EqualCallsSendEqualRequests ==
    \A i \in Slots :
        ( /\ inv[i].pc # "idle"
          /\ seen.op = inv[i].op
          /\ seen.args = inv[i].args )
            => /\ inv[i].sent.method = seen.method
               /\ inv[i].sent.params = seen.params

C13_Witness ==
    /\ seen.op = "list_time_ranges"
    /\ seen.outcome = "raised"
    /\ inv[1].pc = "returned"
    /\ inv[1].op = "list_time_ranges"
    /\ inv[1].args = seen.args
    /\ inv[1].sent.params = seen.params
    /\ DOMAIN inv[1].sent.params = {"filter", "granularity"}

\* C14: when two invocations run concurrently and their executor and processor
\* steps interleave in any order, each invocation's mapping holds only its own
\* arguments, its processor call gets the JSON and elapsed time its own executor
\* call returned, and it returns its own processed result.
C14_InvocationsDoNotMix ==
    \A i \in Slots :
        /\ inv[i].pc # "idle"
              => \A f \in DOMAIN inv[i].sent.params :
                    \E n \in WireParams(inv[i].op) :
                       /\ f = RemoteField[n]
                       /\ inv[i].sent.params[f] =
                              IF inv[i].args[n] = Omitted
                              THEN ParamOf(inv[i].op, n).default
                              ELSE inv[i].args[n]
        /\ inv[i].processes > 0
              => /\ inv[i].processed.response_json = inv[i].response_json
                 /\ inv[i].processed.elapsed_time = inv[i].elapsed_time
                 /\ inv[i].processed.resource = ResultType[inv[i].op]
        /\ inv[i].pc = "returned"
              => IF inv[i].result.kind = "json"
                 THEN inv[i].result.value = inv[i].response_json
                 ELSE \A k \in DOMAIN inv[i].result.instances :
                         /\ inv[i].result.instances[k].elapsed_time = inv[i].elapsed_time
                         /\ inv[i].result.instances[k].resource = ResultType[inv[i].op]
                         /\ inv[i].result.instances[k].data = inv[i].response_json.items[k]

C14_Witness ==
    /\ active = {1, 2}
    /\ inv[1].pc = "returned"
    /\ inv[2].pc = "returned"
    /\ inv[1].op = "replace_orders"
    /\ inv[2].op = "list_market_book"
    /\ inv[1].elapsed_time = 1
    /\ inv[2].elapsed_time = 2
    /\ inv[1].response_json.shape = "object"
    /\ inv[2].response_json.shape = "array"
    /\ inv[1].result.instances[1].elapsed_time = 1
    /\ Len(inv[2].result.instances) = MaxArr
    /\ DOMAIN inv[1].sent.params = {"marketId", "instructions"}
    /\ DOMAIN inv[2].sent.params = {"marketIds"}

\* C16 as stated: the component exposes exactly thirteen operations.
C16_ThirteenOperations ==
    /\ Cardinality(Operations) = 13
    /\ \A i \in Slots : inv[i].pc # "idle" => inv[i].op \in Operations

\* C16 (amended): the component exposes exactly seventeen operations, one per
\* remote method; every invocation is of one of them.
C16_SeventeenOperations ==
    /\ Cardinality(Operations) = 17
    /\ Operations = DOMAIN RemoteMethod
    /\ \A i \in Slots :
          inv[i].pc # "idle"
              => /\ inv[i].op \in Operations
                 /\ inv[i].sent.method = RemoteMethod[inv[i].op]

C16_Witness ==
    /\ inv[1].pc = "request"
    /\ inv[1].op = "replace_orders"
    /\ inv[1].sent.method = "SportsAPING/v1.0/replaceOrders"
    /\ Cardinality(Operations) = 17

\* C17: the processor is called with exactly the parsed JSON and the elapsed
\* time the executor returned for that invocation, the caller's lightweight
\* selector unchanged (None when not passed) and the operation's fixed result type.
C17_ProcessorArguments ==
    \A i \in Slots :
        inv[i].processes > 0
            => inv[i].processed =
                  [ response_json |-> inv[i].response_json,
                    resource |-> ResultType[inv[i].op],
                    elapsed_time |-> inv[i].elapsed_time,
                    lightweight |-> IF inv[i].args["lightweight"] = Omitted THEN None
                                    ELSE inv[i].args["lightweight"] ]

C17_Witness ==
    /\ inv[1].pc = "returned"
    /\ inv[1].op = "list_runner_book"
    /\ inv[1].args["lightweight"] = Omitted
    /\ inv[1].processes = 1
    /\ inv[1].processed.resource = "MarketBook"
    /\ inv[1].processed.lightweight = None
    /\ inv[1].processed.elapsed_time = 2
    /\ inv[1].elapsed_time = 2

\* One step of invocation i keeps the order build mapping, executor call,
\* processor call, return.
StepInOrder(i) ==
    /\ inv'[i].pc # inv[i].pc
          => << inv[i].pc, inv'[i].pc >> \in
                { << "idle", "request" >>, << "request", "response" >>,
                  << "request", "raised" >>, << "response", "returned" >>,
                  << "response", "raised" >>, << "returned", "idle" >>,
                  << "raised", "idle" >> }
    /\ inv'[i].pc # "idle" => inv'[i].processes <= 1
    /\ inv'[i].processes > inv[i].processes
          => /\ inv[i].pc = "response"
             /\ inv[i].requests = 1
             /\ inv[i].exec_failure = ""
             /\ inv'[i].processed.response_json = inv[i].response_json
    /\ inv'[i].pc = "returned"
          => /\ inv[i].pc = "response"
             /\ inv'[i].processes = 1
             /\ inv'[i].result = process(inv'[i].processed.response_json,
                                         inv'[i].processed.resource,
                                         inv'[i].processed.elapsed_time,
                                         inv'[i].processed.lightweight)

\* C18: in every invocation the steps occur in the order build mapping,
\* executor call, processor call, return: the processor is invoked at most once
\* and only after the executor returned normally, the invocation returns only
\* after the processor returned, and returns exactly the processor's output.
C18_StepsInOrder == [][\A i \in Slots : StepInOrder(i)]_vars

C18_Witness ==
    /\ inv[1].pc = "returned"
    /\ inv[1].op = "list_events"
    /\ inv[1].requests = 1
    /\ inv[1].processes = 1
    /\ inv[1].result.kind = "typed"
    /\ Len(inv[1].result.instances) = 2

\* C19: the session handle the caller supplies is handed to the executor
\* unchanged as its third argument, None when the caller supplies none; the
\* operation makes no session of its own.
C19_SessionPassedThrough ==
    \A i \in Slots :
        inv[i].pc # "idle"
            => inv[i].sent.session = IF inv[i].args["session"] = Omitted THEN None
                                     ELSE inv[i].args["session"]

C19_Witness ==
    /\ inv[1].pc = "request"
    /\ inv[1].op = "cancel_orders"
    /\ inv[1].args["session"] = SessionObj
    /\ inv[1].sent.session = SessionObj

\* C20: no operation ends in a failure of its own: whatever the arguments, a
\* vocabulary-typed parameter with a value outside its vocabulary included, the
\* invocation reaches the executor call and the value is transmitted unchanged;
\* a raised invocation got its failure from the executor or the processor.
C20_NoLocalFailure ==
    \A i \in Slots :
        inv[i].pc # "idle"
            => /\ inv[i].requests = 1
               /\ inv[i].sent.method # ""
               /\ inv[i].pc = "raised"
                     => \/ inv[i].failure = inv[i].exec_failure
                        \/ inv[i].processes = 1 /\ inv[i].failure \in ProcessorFailures
               /\ \A n \in ParamNames(inv[i].op) \cap DOMAIN ParamVocabulary :
                     (inv[i].args[n] \notin {Omitted, None} /\ ~IsMember(n, inv[i].args[n]))
                         => /\ RemoteField[n] \in DOMAIN inv[i].sent.params
                            /\ inv[i].sent.params[RemoteField[n]] = inv[i].args[n]

C20_Witness ==
    /\ inv[1].pc = "request"
    /\ inv[1].op = "list_time_ranges"
    /\ inv[1].args["granularity"] = "'x'"
    /\ ~IsMember("granularity", "'x'")
    /\ IsMember("granularity", "'DAYS'")
    /\ inv[1].sent.params["granularity"] = "'x'"

\* C21: when the processor raises after the executor returned normally, the
\* invocation ends with that same failure, returns no result and has called
\* the executor once only.
C21_ProcessorFailurePropagates ==
    \A i \in Slots :
        inv[i].proc_failure # ""
            => /\ inv[i].pc = "raised"
               /\ inv[i].failure = inv[i].proc_failure
               /\ inv[i].result = NoResult
               /\ inv[i].requests = 1
               /\ inv[i].exec_failure = ""
               /\ inv[i].response_json # NoJson
               /\ inv[i].processes = 1

C21_Witness ==
    /\ inv[1].pc = "raised"
    /\ inv[1].op = "list_market_profit_and_loss"
    /\ inv[1].proc_failure = "InvalidResponse"
    /\ inv[1].failure = "InvalidResponse"
    /\ inv[1].exec_failure = ""
    /\ inv[1].requests = 1

\* C22: a call that leaves out filter (or the date range of list_current_orders
\* and list_cleared_orders) transmits the empty filter (the empty date range),
\* whatever earlier calls and their collaborators did.
C22_OmittedFilterIsFresh ==
    \A i \in Slots :
        inv[i].pc # "idle"
            => \A o \in DefaultObjects :
                 (o[1] = inv[i].op /\ inv[i].args[o[2]] = Omitted)
                     => /\ RemoteField[o[2]] \in DOMAIN inv[i].sent.params
                        /\ inv[i].sent.params[RemoteField[o[2]]] = DefaultsAtDefinition[o]

\* Every wire parameter of invocation i was left out by the caller.
NoArguments(i) == \A n \in WireParams(inv[i].op) : inv[i].args[n] = Omitted

\* C23: list_current_orders with no arguments hands the executor a mapping
\* whose only field is dateRange, a range with both ends unset;
\* list_cleared_orders with no arguments hands it exactly betStatus = "SETTLED"
\* and settledDateRange.
C23_DefaultDateRangePresent ==
    \A i \in Slots :
        (inv[i].pc # "idle" /\ NoArguments(i))
            => /\ inv[i].op = "list_current_orders"
                     => /\ DOMAIN inv[i].sent.params = {"dateRange"}
                        /\ inv[i].sent.params["dateRange"] = "{'from': None, 'to': None}"
               /\ inv[i].op = "list_cleared_orders"
                     => /\ DOMAIN inv[i].sent.params = {"betStatus", "settledDateRange"}
                        /\ inv[i].sent.params["betStatus"] = "'SETTLED'"
                        /\ inv[i].sent.params["settledDateRange"]
                               = "{'from': None, 'to': None}"

C23_Witness ==
    /\ inv[1].pc = "request"
    /\ inv[1].op = "list_cleared_orders"
    /\ NoArguments(1)
    /\ DOMAIN inv[1].sent.params = {"betStatus", "settledDateRange"}

\* C24: a parameter supplied as False, 0, an empty string, an empty list or an
\* empty mapping is in the transmitted mapping with that value; a wire
\* parameter has no field only when it is bound to None.
C24_FalsyValuesTransmitted ==
    \A i \in Slots :
        inv[i].pc # "idle" =>
            \A n \in WireParams(inv[i].op) :
                /\ inv[i].args[n] \in Falsy
                       => /\ RemoteField[n] \in DOMAIN inv[i].sent.params
                          /\ inv[i].sent.params[RemoteField[n]] = inv[i].args[n]
                /\ RemoteField[n] \notin DOMAIN inv[i].sent.params
                       => \/ inv[i].args[n] = None
                          \/ inv[i].args[n] = Omitted /\ ParamOf(inv[i].op, n).default = None

C24_Witness ==
    /\ inv[1].pc = "request"
    /\ inv[1].op = "list_market_profit_and_loss"
    /\ inv[1].args["include_settled_bets"] = "False"
    /\ inv[1].sent.params["includeSettledBets"] = "False"
    /\ "includeBspBets" \notin DOMAIN inv[1].sent.params

\* C25: a parameter with a declared default that the caller passes as None has
\* no field in the transmitted mapping: the default is not put in its place.
C25_ExplicitNoneIsAbsent ==
    \A i \in Slots :
        inv[i].pc # "idle" =>
            \A n \in WireParams(inv[i].op) :
                (inv[i].args[n] = None /\ ParamOf(inv[i].op, n).default # None)
                    => RemoteField[n] \notin DOMAIN inv[i].sent.params

C25_Witness ==
    /\ inv[1].pc = "request"
    /\ inv[1].op = "list_market_catalogue"
    /\ inv[1].args["max_results"] = None
    /\ inv[1].args["filter"] = Omitted
    /\ DOMAIN inv[1].sent.params = {"filter"}

\* C26: the method name handed to the executor identifies the operation: two
\* invocations with the same fully-qualified method name are invocations of
\* the same operation.
C26_MethodIdentifiesOperation ==
    \A i, j \in Slots :
        (inv[i].pc # "idle" /\ inv[j].pc # "idle"
            /\ inv[i].sent.method = inv[j].sent.method)
                => inv[i].op = inv[j].op

C26_Witness ==
    /\ inv[1].pc = "request"
    /\ inv[2].pc = "request"
    /\ inv[1].op = "list_market_book"
    /\ inv[2].op = "list_runner_book"
    /\ inv[1].sent.method = "SportsAPING/v1.0/listMarketBook"
    /\ inv[2].sent.method = "SportsAPING/v1.0/listRunnerBook"
====
